---- MODULE Spec2Model ----
(***************************************************************************)
(* State-machine model of CloudFilesProvider                               *)
(* (src/lib/platform/windows/CloudFilesProvider/CloudFilesProvider.cpp):   *)
(* the worker loop started by Initialize, the host callbacks that feed the *)
(* work queue (OnFetchData) or answer inline (OnValidateData, OnNotify..), *)
(* the Initialize / Shutdown / RegisterSyncRoot / UnregisterSyncRoot       *)
(* lifecycle, and the file operations (CreatePlaceholder, HydrateFile,     *)
(* SetInSyncState, SetPinState) with the calls each one makes.  Every     *)
(* lock acquisition of m_queueMutex is a step boundary.                    *)
(***************************************************************************)
EXTENDS Integers, Sequences, FiniteSets, TLC

\* ------------------------------------------------------------- bounds
\* Total number of callbacks (fetch, validate, cancel, notify) the host
\* delivers.
MaxCallbacks == 2
\* Total number of successful host connects (each returns a fresh key).
MaxConnects == 1
\* The same total where the calls of each operation are recorded.
MaxReconnects == 2
\* Worker threads that may exist beyond the one m_workerThread owns.
MaxExtraWorkers == 1

\* ---------------------------------------------------------- constants
CF_CONNECTION_KEY_INVALID == 0
STATUS_SUCCESS == 0
CF_TRANSFER_KEY_INVALID == 0
\* progressCallback(1.0): the fraction that means complete.
ProgressComplete == 1

\* No std::function target / no work item.
None == "none"
\* Application fetch sources and notify sinks that may be installed.
Sources == {"src"}
Sinks == {"sink"}
\* Fetch requests the host may deliver: NormalizedPath and
\* FetchData.RequiredFileOffset.
FetchRequests == {[path |-> "a", offset |-> 0], [path |-> "b", offset |-> 4]}
\* Normalized paths the host reports in notifications.
Paths == {"a", "b"}
\* Validate requests the host may deliver: NormalizedPath,
\* ValidateData.RequiredFileOffset and ValidateData.RequiredLength.
ValidateRequests ==
    {[path |-> "a", offset |-> 0, length |-> 3],
     [path |-> "b", offset |-> 4, length |-> 5]}
\* The bytes the application fetch source returns for a path.
RemoteBytes(path) == IF path = "a" THEN <<1>> ELSE <<1, 2>>
\* Host callback threads and the queue-mutex owners.
HostThreads == {"h1", "h2"}
Free == "free"
Worker == "worker"

\* CallbackInfo->TransferKey of the id-th fetch request: an opaque key the
\* host issues per request (never a file offset of the model).
HostTransferKey(id) == 100 + id

VARIABLES
    m_initialized,        \* bool m_initialized
    m_shouldStop,         \* bool m_shouldStop
    m_workQueue,          \* std::queue<std::function<void()>> m_workQueue
    m_connectionKey,      \* CF_CONNECTION_KEY m_connectionKey
    m_fetchDataCallback,  \* std::function m_fetchDataCallback
    m_notifyCallback,     \* std::function m_notifyCallback
    queueMutex,           \* owner of m_queueMutex
    wpc,                  \* position of the worker thread
    work,                 \* the work item the worker popped
    data,                 \* the bytes the running work item fetched
    hpc,                  \* position of each host callback thread
    hitem,                \* the work item a host thread is about to push
    apc,                  \* position of the application thread (Shutdown)
    connects,             \* number of keys the host has issued
    requests,             \* history: fetch requests delivered, by id
    enqueued,             \* history: ids in the order they were pushed
    fetchCalls,           \* history: invocations of the fetch source
    transfers,            \* history: transfer commands given to the host
    stopped,              \* history: ids queued when stop was requested
    inlineCount,          \* number of inline callbacks the host delivered
    lastEvent,            \* the latest inline callback's kind and parameters
    ackOut,               \* host acknowledgements that callback issued
    sinkOut,              \* notify-sink invocations that callback made
    tracing,              \* whether the calls of each operation are recorded
    callOut,              \* API calls the latest application operation made
    lastOp,               \* that operation: name, stored key at entry, result
    hostConns,            \* connection keys the host holds connected
    ipc,                  \* position of each thread inside Initialize
    extraWorkers          \* worker threads beyond the one m_workerThread owns

vars == <<m_initialized, m_shouldStop, m_workQueue, m_connectionKey,
          m_fetchDataCallback, m_notifyCallback, queueMutex, wpc, work, data,
          hpc, hitem, apc, connects, requests, enqueued, fetchCalls,
          transfers, stopped, inlineCount, lastEvent, ackOut, sinkOut,
          tracing, callOut, lastOp, hostConns, ipc, extraWorkers>>

progVars == <<m_initialized, m_shouldStop, m_workQueue, m_connectionKey,
              m_fetchDataCallback, m_notifyCallback>>
workerVars == <<wpc, work, data>>
hostVars == <<hpc, hitem>>
histVars == <<requests, enqueued, fetchCalls, transfers, stopped>>
inlineVars == <<inlineCount, lastEvent, ackOut, sinkOut>>
opVars == <<tracing, callOut, lastOp, hostConns>>
raceVars == <<ipc, extraWorkers>>

NoItem == [id |-> 0, path |-> None, transferKey |-> 0]
NoEvent == [kind |-> None, path |-> None, offset |-> 0, length |-> 0]
NoOp == [op |-> None, key |-> CF_CONNECTION_KEY_INVALID, ok |-> TRUE]
\* Application threads that may call Initialize.
InitThreads == {"i1", "i2"}

\* The provider as its constructor leaves it.
Constructed ==
    /\ m_initialized = FALSE
    /\ m_shouldStop = FALSE
    /\ m_workQueue = <<>>
    /\ m_connectionKey = CF_CONNECTION_KEY_INVALID
    /\ m_fetchDataCallback = None
    /\ m_notifyCallback = None
    /\ queueMutex = Free
    /\ wpc = "none"
    /\ work = NoItem
    /\ data = <<>>
    /\ hpc = [t \in HostThreads |-> "idle"]
    /\ hitem = [t \in HostThreads |-> NoItem]
    /\ apc = "idle"
    /\ connects = 0
    /\ requests = <<>>
    /\ enqueued = <<>>
    /\ fetchCalls = <<>>
    /\ transfers = <<>>
    /\ stopped = {}
    /\ inlineCount = 0
    /\ lastEvent = NoEvent
    /\ ackOut = <<>>
    /\ sinkOut = <<>>
    /\ callOut = <<>>
    /\ lastOp = NoOp
    /\ hostConns = {}
    /\ ipc = [t \in InitThreads |-> "idle"]
    /\ extraWorkers = 0

Init == Constructed /\ tracing = FALSE
\* The same provider with the calls of each operation recorded.
OpsInit == Constructed /\ tracing = TRUE

\* std::terminate has not been called (an exception left the worker thread);
\* once it has, no thread of the process takes another step.
Running == wpc # "terminated"
\* The host delivers callbacks only for a connected sync root.
Connected == m_connectionKey # CF_CONNECTION_KEY_INVALID

\* Callbacks delivered so far: fetch requests and inline callbacks.
Delivered == Len(requests) + inlineCount

\* m_queueCondition.notify_one / notify_all: the only waiter is the worker.
Notified(pc) == IF pc = "blocked" THEN "woken" ELSE pc

\* --------------------------------------------- calls of an operation
\* One call of an operation to the host, the OS or the application.
ApiCall(name, arg) == [call |-> name, arg |-> arg]

\* An application operation leaves the calls it made, its description and
\* the host's connections behind (where calls are recorded).
Observe(calls, op, conns) ==
    /\ tracing' = tracing
    /\ IF tracing
       THEN /\ callOut' = calls
            /\ lastOp' = op
            /\ hostConns' = conns
       ELSE UNCHANGED <<callOut, lastOp, hostConns>>

\* Mutation: the disconnect step calls the host whatever the stored key is.
DisconnectCallsUnguarded(key) == <<ApiCall("CfDisconnectSyncRoot", key)>>
\* The disconnect step of Shutdown (l.79-82) and UnregisterSyncRoot
\* (l.144-147): if (m_connectionKey != CF_CONNECTION_KEY_INVALID)
\* CfDisconnectSyncRoot(m_connectionKey).
DisconnectCalls(key) ==
    IF key # CF_CONNECTION_KEY_INVALID
    THEN <<ApiCall("CfDisconnectSyncRoot", key)>>
    ELSE <<>>

\* ------------------------------------------------- Initialize (l.28-58)
\* if (m_initialized) return S_OK; otherwise m_shouldStop = false, the worker
\* thread is started and m_initialized = true.
Initialize ==
    /\ Running
    /\ apc = "idle"
    /\ IF m_initialized
       THEN UNCHANGED <<m_initialized, m_shouldStop, wpc>>
       ELSE /\ wpc = "none"
            /\ m_shouldStop' = FALSE
            /\ wpc' = "outer"
            /\ m_initialized' = TRUE
    /\ UNCHANGED <<m_workQueue, m_connectionKey, m_fetchDataCallback,
                   m_notifyCallback, queueMutex, work, data, hostVars, apc,
                   connects, histVars>>
    /\ UNCHANGED inlineVars
    /\ UNCHANGED <<opVars, raceVars>>

\* --------------------------------------- the worker loop (l.37-52)
\* wait predicate of m_queueCondition.wait (l.40)
WaitPredicate == m_workQueue # <<>> \/ m_shouldStop
\* condition of the inner while (l.42)
InnerCondition == m_workQueue # <<>> /\ ~m_shouldStop
\* Mutation: the worker keeps the lock while it runs the item.
OwnerWhileExecutingLocked == Worker
\* owner of m_queueMutex once the item is popped: lock.unlock() (l.45)
OwnerWhileExecuting == Free
\* Mutation: front() without pop().
QueueAfterPopKeepsFront == m_workQueue
\* m_workQueue after front() and pop() (l.43-44)
QueueAfterPop == Tail(m_workQueue)

\* while (!m_shouldStop): the thread function returns when stop is set.
WorkerCheckStop ==
    /\ wpc = "outer"
    /\ wpc' = IF m_shouldStop THEN "done" ELSE "lock"
    /\ UNCHANGED <<progVars, queueMutex, work, data, hostVars, apc, connects,
                   histVars>>
    /\ UNCHANGED inlineVars
    /\ UNCHANGED <<opVars, raceVars>>

\* std::unique_lock<std::mutex> lock(m_queueMutex) (l.39); also the
\* re-acquisition inside wait() after a wake-up.
WorkerLock ==
    /\ wpc \in {"lock", "woken"}
    /\ queueMutex = Free
    /\ queueMutex' = Worker
    /\ wpc' = "wait"
    /\ UNCHANGED <<progVars, work, data, hostVars, apc, connects, histVars>>
    /\ UNCHANGED inlineVars
    /\ UNCHANGED <<opVars, raceVars>>

\* m_queueCondition.wait(lock, pred) (l.40): with the predicate false the lock
\* is released and the thread blocks, atomically.
WorkerWait ==
    /\ wpc = "wait"
    /\ queueMutex = Worker
    /\ IF WaitPredicate
       THEN wpc' = "inner" /\ UNCHANGED queueMutex
       ELSE wpc' = "blocked" /\ queueMutex' = Free
    /\ UNCHANGED <<progVars, work, data, hostVars, apc, connects, histVars>>
    /\ UNCHANGED inlineVars
    /\ UNCHANGED <<opVars, raceVars>>

\* A condition variable may wake without a notification.
SpuriousWake ==
    /\ wpc = "blocked"
    /\ wpc' = "woken"
    /\ UNCHANGED <<progVars, queueMutex, work, data, hostVars, apc, connects,
                   histVars>>
    /\ UNCHANGED inlineVars
    /\ UNCHANGED <<opVars, raceVars>>

\* The inner while (l.42-45): pop the front item and unlock, or leave the
\* loop, where the unique_lock's destructor unlocks (l.51).
WorkerPop ==
    /\ wpc = "inner"
    /\ queueMutex = Worker
    /\ IF InnerCondition
       THEN /\ work' = Head(m_workQueue)
            /\ m_workQueue' = QueueAfterPop
            /\ queueMutex' = OwnerWhileExecuting
            /\ wpc' = "exec"
       ELSE /\ queueMutex' = Free
            /\ wpc' = "outer"
            /\ UNCHANGED <<work, m_workQueue>>
    /\ UNCHANGED <<m_initialized, m_shouldStop, m_connectionKey,
                   m_fetchDataCallback, m_notifyCallback, data, hostVars, apc,
                   connects, histVars>>
    /\ UNCHANGED inlineVars
    /\ UNCHANGED <<opVars, raceVars>>

\* The transfer command a work item issues (l.269-283).
TransferCommand(item, bytes) ==
    [id |-> item.id,
     conn |-> m_connectionKey,
     key |-> item.transferKey,
     status |-> STATUS_SUCCESS,
     buffer |-> bytes,
     length |-> Len(bytes),
     offset |-> 0]

\* work() part 1 (l.266): provider->m_fetchDataCallback(relativePath).  An
\* empty std::function throws std::bad_function_call, and the source itself
\* may throw; nothing in the thread function catches, so std::terminate runs.
WorkerFetch ==
    /\ wpc = "exec"
    /\ \/ /\ m_fetchDataCallback = None
          /\ wpc' = "terminated"
          /\ UNCHANGED <<data, fetchCalls>>
       \/ /\ m_fetchDataCallback # None
          /\ fetchCalls' = Append(fetchCalls,
                 [id |-> work.id, path |-> work.path,
                  source |-> m_fetchDataCallback])
          /\ \/ data' = RemoteBytes(work.path) /\ wpc' = "xfer"
             \/ wpc' = "terminated" /\ UNCHANGED data
    /\ UNCHANGED <<progVars, queueMutex, work, hostVars, apc, connects,
                   requests, enqueued, transfers, stopped>>
    /\ UNCHANGED inlineVars
    /\ UNCHANGED <<opVars, raceVars>>

\* work() part 2 (l.269-286): CfExecute of the transfer; a failure HRESULT is
\* only logged.
WorkerTransfer ==
    /\ wpc = "xfer"
    /\ transfers' = Append(transfers, TransferCommand(work, data))
    /\ work' = NoItem
    /\ data' = <<>>
    /\ wpc' = "relock"
    /\ UNCHANGED <<progVars, queueMutex, hostVars, apc, connects, requests,
                   enqueued, fetchCalls, stopped>>
    /\ UNCHANGED inlineVars
    /\ UNCHANGED <<opVars, raceVars>>

\* lock.lock() (l.49)
WorkerRelock ==
    /\ wpc = "relock"
    /\ queueMutex = Free
    /\ queueMutex' = Worker
    /\ wpc' = "inner"
    /\ UNCHANGED <<progVars, work, data, hostVars, apc, connects, histVars>>
    /\ UNCHANGED inlineVars
    /\ UNCHANGED <<opVars, raceVars>>

WorkerStep ==
    \/ WorkerCheckStop
    \/ WorkerLock
    \/ WorkerWait
    \/ WorkerPop
    \/ WorkerFetch
    \/ WorkerTransfer
    \/ WorkerRelock

\* ----------------------------------------------- Shutdown (l.60-86)
\* Ids of the items in a queue.
QueuedIds(q) == {q[i].id : i \in 1..Len(q)}

\* l.61-71: return if not initialized; else take the queue lock and set
\* m_shouldStop (the lock_guard's scope is the assignment).
ShutdownRequestStop ==
    /\ Running
    /\ apc = "idle"
    /\ IF ~m_initialized
       THEN UNCHANGED <<m_shouldStop, apc, stopped>>
       ELSE /\ queueMutex = Free
            /\ m_shouldStop' = TRUE
            /\ stopped' = stopped \cup QueuedIds(m_workQueue)
            /\ apc' = "sd_notify"
    /\ UNCHANGED <<m_initialized, m_workQueue, m_connectionKey,
                   m_fetchDataCallback, m_notifyCallback, queueMutex,
                   workerVars, hostVars, connects, requests, enqueued,
                   fetchCalls, transfers>>
    /\ UNCHANGED inlineVars
    /\ UNCHANGED <<opVars, raceVars>>

\* l.72: m_queueCondition.notify_all()
ShutdownNotify ==
    /\ Running
    /\ apc = "sd_notify"
    /\ wpc' = Notified(wpc)
    /\ apc' = "sd_join"
    /\ UNCHANGED <<progVars, queueMutex, work, data, hostVars, connects,
                   histVars>>
    /\ UNCHANGED inlineVars
    /\ UNCHANGED <<opVars, raceVars>>

\* l.74-85: join() returns once the thread function has returned; then the
\* sync root is disconnected if connected and m_initialized is cleared.
ShutdownJoin ==
    /\ Running
    /\ apc = "sd_join"
    /\ wpc = "done"
    /\ wpc' = "none"
    /\ m_connectionKey' = CF_CONNECTION_KEY_INVALID
    /\ m_initialized' = FALSE
    /\ apc' = "idle"
    /\ Observe(DisconnectCalls(m_connectionKey),
               [op |-> "Shutdown", key |-> m_connectionKey, ok |-> TRUE],
               hostConns \ {m_connectionKey})
    /\ UNCHANGED <<m_shouldStop, m_workQueue, m_fetchDataCallback,
                   m_notifyCallback, queueMutex, work, data, hostVars,
                   connects, histVars>>
    /\ UNCHANGED inlineVars
    /\ UNCHANGED raceVars

\* ---------------------- RegisterSyncRoot / UnregisterSyncRoot (l.88-155)
\* Outcomes of CreateDirectoryW: the directory is created, the call fails
\* with ERROR_ALREADY_EXISTS, or it fails with another error.
DirectoryOutcomes == {"created", "exists", "denied"}
\* Mutation: any failure of CreateDirectoryW ends the registration.
DirectoryReadyOnlyIfCreated(dir) == dir = "created"
\* l.94: the registration goes on unless CreateDirectoryW failed with an
\* error other than ERROR_ALREADY_EXISTS.
DirectoryReady(dir) == dir \in {"created", "exists"}

\* Successful host connects the bounds allow.
ConnectLimit == IF tracing THEN MaxReconnects ELSE MaxConnects

\* l.131-135: a failed connect is followed by CfUnregisterSyncRoot.
ConnectFailureCalls == <<ApiCall("CfUnregisterSyncRoot", 0)>>

\* The calls RegisterSyncRoot makes, in order, given what each one returns
\* (l.94-135); a failure of a step ends the operation.
RegisterCalls(dir, regOk, connOk) ==
    <<ApiCall("CreateDirectoryW", 0)>> \o
    IF ~DirectoryReady(dir) THEN <<>>
    ELSE <<ApiCall("CfRegisterSyncRoot", 0)>> \o
         IF ~regOk THEN <<>>
         ELSE <<ApiCall("CfConnectSyncRoot", 0)>> \o
              IF connOk THEN <<>> ELSE ConnectFailureCalls

\* CreateDirectoryW, CfRegisterSyncRoot and CfConnectSyncRoot each succeed or
\* fail.  CfConnectSyncRoot writes the new key straight into m_connectionKey
\* (l.130), whatever that member held; a failed step returns its error and
\* leaves m_connectionKey as it was.
RegisterSyncRoot ==
    /\ Running
    /\ apc = "idle"
    /\ connects < ConnectLimit
    /\ \E dir \in DirectoryOutcomes, regOk, connOk \in BOOLEAN :
         LET ok == DirectoryReady(dir) /\ regOk /\ connOk
             key == connects + 1
         IN /\ IF ok
               THEN /\ connects' = connects + 1
                    /\ m_connectionKey' = key
               ELSE UNCHANGED <<connects, m_connectionKey>>
            /\ Observe(RegisterCalls(dir, regOk, connOk),
                       [op |-> "RegisterSyncRoot", key |-> m_connectionKey,
                        ok |-> ok, dir |-> dir, reg |-> regOk,
                        conn |-> connOk],
                       IF ok THEN hostConns \cup {key} ELSE hostConns)
    /\ UNCHANGED <<m_initialized, m_shouldStop, m_workQueue,
                   m_fetchDataCallback, m_notifyCallback, queueMutex,
                   workerVars, hostVars, apc, histVars>>
    /\ UNCHANGED inlineVars
    /\ UNCHANGED raceVars

\* Mutation: the host is asked to unregister before the disconnect.
UnregisterCallsUnregisterFirst(key) ==
    <<ApiCall("CfUnregisterSyncRoot", 0)>> \o DisconnectCalls(key)
\* The calls UnregisterSyncRoot makes, in order (l.144-149).
UnregisterCalls(key) ==
    DisconnectCalls(key) \o <<ApiCall("CfUnregisterSyncRoot", 0)>>

\* l.144-154: disconnect if connected, then CfUnregisterSyncRoot, whose
\* result is returned.
UnregisterSyncRoot ==
    /\ Running
    /\ apc = "idle"
    /\ m_connectionKey' = CF_CONNECTION_KEY_INVALID
    /\ \E unregOk \in BOOLEAN :
         Observe(UnregisterCalls(m_connectionKey),
                 [op |-> "UnregisterSyncRoot", key |-> m_connectionKey,
                  ok |-> unregOk],
                 hostConns \ {m_connectionKey})
    /\ UNCHANGED <<m_initialized, m_shouldStop, m_workQueue,
                   m_fetchDataCallback, m_notifyCallback, queueMutex,
                   workerVars, hostVars, apc, connects, histVars>>
    /\ UNCHANGED inlineVars
    /\ UNCHANGED raceVars

\* ------------------------------------------- callback slots (l.246-252)
SetFetchDataCallback(cb) ==
    /\ Running
    /\ apc = "idle"
    /\ m_fetchDataCallback' = cb
    /\ UNCHANGED <<m_initialized, m_shouldStop, m_workQueue, m_connectionKey,
                   m_notifyCallback, queueMutex, workerVars, hostVars, apc,
                   connects, histVars>>
    /\ UNCHANGED inlineVars
    /\ UNCHANGED <<opVars, raceVars>>

SetNotifyCallback(cb) ==
    /\ Running
    /\ apc = "idle"
    /\ m_notifyCallback' = cb
    /\ UNCHANGED <<m_initialized, m_shouldStop, m_workQueue, m_connectionKey,
                   m_fetchDataCallback, queueMutex, workerVars, hostVars, apc,
                   connects, histVars>>
    /\ UNCHANGED inlineVars
    /\ UNCHANGED <<opVars, raceVars>>

\* --------------------------------------------- OnFetchData (l.255-291)
\* The lambda's captures (l.265): provider, relativePath and
\* transferKey = CallbackParameters->FetchData.RequiredFileOffset.
MakeWorkItem(id, req) ==
    [id |-> id, path |-> req.path, transferKey |-> req.offset]

\* Mutation: the handler enqueues without testing the fetch source.
FetchSourceAssumed == TRUE
\* if (provider->m_fetchDataCallback) (l.261)
FetchSourceConfigured == m_fetchDataCallback # None

\* The host runs a callback on the first idle thread of its pool (the
\* threads are interchangeable).
FirstIdle(t) == t = "h1" \/ hpc["h1"] # "idle"

\* l.256-261: the host delivers a fetch request; with no fetch source the
\* handler returns at once.
OnFetchData(t) ==
    /\ Running
    /\ hpc[t] = "idle"
    /\ FirstIdle(t)
    /\ Connected
    /\ Delivered < MaxCallbacks
    /\ \E r \in FetchRequests :
         LET id == Len(requests) + 1
             req == [path |-> r.path, key |-> HostTransferKey(id),
                     offset |-> r.offset, source |-> m_fetchDataCallback]
         IN /\ requests' = Append(requests, req)
            /\ IF FetchSourceConfigured
               THEN /\ hitem' = [hitem EXCEPT ![t] = MakeWorkItem(id, req)]
                    /\ hpc' = [hpc EXCEPT ![t] = "push"]
               ELSE UNCHANGED <<hitem, hpc>>
    /\ UNCHANGED <<progVars, queueMutex, workerVars, apc, connects, enqueued,
                   fetchCalls, transfers, stopped>>
    /\ UNCHANGED inlineVars
    /\ UNCHANGED <<opVars, raceVars>>

\* l.263-288: under the queue lock, push the work item.
OnFetchDataPush(t) ==
    /\ Running
    /\ hpc[t] = "push"
    /\ queueMutex = Free
    /\ m_workQueue' = Append(m_workQueue, hitem[t])
    /\ enqueued' = Append(enqueued, hitem[t].id)
    /\ hpc' = [hpc EXCEPT ![t] = "notify"]
    /\ UNCHANGED <<m_initialized, m_shouldStop, m_connectionKey,
                   m_fetchDataCallback, m_notifyCallback, queueMutex,
                   workerVars, hitem, apc, connects, requests, fetchCalls,
                   transfers, stopped>>
    /\ UNCHANGED inlineVars
    /\ UNCHANGED <<opVars, raceVars>>

\* l.289: m_queueCondition.notify_one()
OnFetchDataNotify(t) ==
    /\ Running
    /\ hpc[t] = "notify"
    /\ wpc' = Notified(wpc)
    /\ hpc' = [hpc EXCEPT ![t] = "idle"]
    /\ hitem' = [hitem EXCEPT ![t] = NoItem]
    /\ UNCHANGED <<progVars, queueMutex, work, data, apc, connects, histVars>>
    /\ UNCHANGED inlineVars
    /\ UNCHANGED <<opVars, raceVars>>

\* ----------------------------- inline callbacks (l.293-359)
\* An inline callback runs to completion on the host's callback thread: it
\* takes no lock and touches neither the queue nor the worker.  It leaves
\* lastEvent, ackOut and sinkOut describing what it received and issued.
InlineCallback(kind, path, offset, length, acks, sinkCalls) ==
    /\ Running
    /\ Connected
    /\ Delivered < MaxCallbacks
    /\ inlineCount' = inlineCount + 1
    /\ lastEvent' = [kind |-> kind, path |-> path, offset |-> offset,
                     length |-> length]
    /\ ackOut' = acks
    /\ sinkOut' = sinkCalls
    /\ UNCHANGED <<progVars, queueMutex, workerVars, hostVars, apc, connects,
                   histVars>>
    /\ UNCHANGED <<opVars, raceVars>>

\* Mutation: the acknowledgement does not echo the requested range.
AckCommandFromStart(r) ==
    [conn |-> m_connectionKey,
     key |-> r.offset,
     status |-> STATUS_SUCCESS,
     offset |-> 0,
     length |-> r.length]

\* The CF_OPERATION_TYPE_ACK_DATA command of OnValidateData (l.296-309).
AckCommand(r) ==
    [conn |-> m_connectionKey,
     key |-> r.offset,
     status |-> STATUS_SUCCESS,
     offset |-> r.offset,
     length |-> r.length]

\* if (provider->m_notifyCallback) provider->m_notifyCallback(path, name)
NotifySink(path, name) ==
    IF m_notifyCallback # None
    THEN <<[sink |-> m_notifyCallback, path |-> path, event |-> name]>>
    ELSE <<>>

OnValidateData(r) ==
    InlineCallback("validate", r.path, r.offset, r.length,
                   <<AckCommand(r)>>, <<>>)

OnCancelFetchData(path) ==
    InlineCallback("cancel_fetch", path, 0, 0, <<>>, <<>>)

OnNotifyFileOpenCompletion(path) ==
    InlineCallback("open_completion", path, 0, 0, <<>>,
                   NotifySink(path, "file_opened"))

OnNotifyFileCloseCompletion(path) ==
    InlineCallback("close_completion", path, 0, 0, <<>>,
                   NotifySink(path, "file_closed"))

OnNotifyDehydrate(path) ==
    InlineCallback("dehydrate", path, 0, 0, <<>>, <<>>)

OnNotifyDehydrateCompletion(path) ==
    InlineCallback("dehydrate_completion", path, 0, 0, <<>>, <<>>)

OnNotifyDelete(path) ==
    InlineCallback("delete", path, 0, 0, <<>>,
                   NotifySink(path, "file_deleted"))

\* Mutation: the completion is forwarded like the delete notification.
OnNotifyDeleteCompletionForwards(path) ==
    InlineCallback("delete_completion", path, 0, 0, <<>>,
                   NotifySink(path, "file_deleted"))

OnNotifyDeleteCompletion(path) ==
    InlineCallback("delete_completion", path, 0, 0, <<>>, <<>>)

OnNotifyRename(path) ==
    InlineCallback("rename", path, 0, 0, <<>>,
                   NotifySink(path, "file_renamed"))

OnNotifyRenameCompletion(path) ==
    InlineCallback("rename_completion", path, 0, 0, <<>>, <<>>)

InlineStep ==
    \/ \E r \in ValidateRequests : OnValidateData(r)
    \/ \E path \in Paths :
        \/ OnCancelFetchData(path)
        \/ OnNotifyFileOpenCompletion(path)
        \/ OnNotifyFileCloseCompletion(path)
        \/ OnNotifyDehydrate(path)
        \/ OnNotifyDehydrateCompletion(path)
        \/ OnNotifyDelete(path)
        \/ OnNotifyDeleteCompletion(path)
        \/ OnNotifyRename(path)
        \/ OnNotifyRenameCompletion(path)

\* ------------------------------------- file operations (l.157-244)
\* Buffers the application hydrates a file with, and the progress callbacks
\* it passes (None: an empty std::function).
Buffers == {<<1>>, <<1, 2>>}
ProgressCallbacks == {"progress", None}
\* The handle CreateFileW returns when it succeeds (GetFileHandle, l.425).
FileHandle == "hFile"
\* CF_IN_SYNC_STATE and CF_PIN_STATE values the application passes.
InSyncStates == {"IN_SYNC", "NOT_IN_SYNC"}
PinStates == {"PINNED", "UNPINNED"}
\* The descriptor buffers of CreatePlaceholderInfo (l.389, l.399).
FileNameBuffer == "fileName"
FileIdentityBuffer == "fileIdentity"
NullPointer == "null"

\* Mutation: the handle is closed only when the host command succeeded.
CloseCallsOnSuccess(hostOk) ==
    IF hostOk THEN <<ApiCall("CloseHandle", FileHandle)>> ELSE <<>>
\* CloseHandle(fileHandle) after the host command, whatever it returned
\* (l.213, l.229, l.241).
CloseCalls(hostOk) == <<ApiCall("CloseHandle", FileHandle)>>

\* Mutation: the transfer always starts at offset 0 but covers no byte.
HydrateCommandEmpty(bytes) ==
    [call |-> "CfExecute", arg |-> m_connectionKey,
     transferKey |-> CF_TRANSFER_KEY_INVALID, status |-> STATUS_SUCCESS,
     buffer |-> bytes, length |-> 0, offset |-> 0]
\* The CF_OPERATION_TYPE_TRANSFER_DATA command of HydrateFile (l.194-208).
HydrateCommand(bytes) ==
    [call |-> "CfExecute", arg |-> m_connectionKey,
     transferKey |-> CF_TRANSFER_KEY_INVALID, status |-> STATUS_SUCCESS,
     buffer |-> bytes, length |-> Len(bytes), offset |-> 0]

\* l.215-217: if (progressCallback) progressCallback(1.0), whatever CfExecute
\* returned.
ProgressCalls(cb, hostOk) ==
    IF cb # None THEN <<ApiCall(cb, ProgressComplete)>> ELSE <<>>

\* An application operation that changes no member of the provider: it
\* leaves only its calls and its result.
FileOperation(calls, op) ==
    /\ Running
    /\ apc = "idle"
    /\ tracing
    /\ Observe(calls, op, hostConns)
    /\ UNCHANGED <<progVars, queueMutex, workerVars, hostVars, apc, connects,
                   histVars>>
    /\ UNCHANGED inlineVars
    /\ UNCHANGED raceVars

\* HydrateFile (l.182-220): open the file; on failure return the error; else
\* transfer the buffer, close the handle, report progress, return the
\* transfer's result.
HydrateFile ==
    \E bytes \in Buffers, cb \in ProgressCallbacks, openOk, hostOk \in BOOLEAN :
        FileOperation(
            <<ApiCall("CreateFileW", 0)>> \o
            IF ~openOk THEN <<>>
            ELSE <<HydrateCommand(bytes)>> \o CloseCalls(hostOk) \o
                 ProgressCalls(cb, hostOk),
            [op |-> "HydrateFile", key |-> m_connectionKey,
             ok |-> openOk /\ hostOk, open |-> openOk, host |-> hostOk,
             buffer |-> bytes, progress |-> cb])

\* SetInSyncState (l.222-232)
SetInSyncState ==
    \E state \in InSyncStates, openOk, hostOk \in BOOLEAN :
        FileOperation(
            <<ApiCall("CreateFileW", 0)>> \o
            IF ~openOk THEN <<>>
            ELSE <<ApiCall("CfSetInSyncState", state)>> \o CloseCalls(hostOk),
            [op |-> "SetInSyncState", key |-> m_connectionKey,
             ok |-> openOk /\ hostOk, open |-> openOk, host |-> hostOk])

\* SetPinState (l.234-244)
SetPinState ==
    \E state \in PinStates, openOk, hostOk \in BOOLEAN :
        FileOperation(
            <<ApiCall("CreateFileW", 0)>> \o
            IF ~openOk THEN <<>>
            ELSE <<ApiCall("CfSetPinState", state)>> \o CloseCalls(hostOk),
            [op |-> "SetPinState", key |-> m_connectionKey,
             ok |-> openOk /\ hostOk, open |-> openOk, host |-> hostOk])

\* CreatePlaceholderInfo (l.384-419): allocate the file name, then the file
\* identity; if the second allocation fails the first buffer is freed.
CreatePlaceholderInfoCalls(nameOk, identityOk) ==
    IF ~nameOk THEN <<ApiCall("HeapAlloc", NullPointer)>>
    ELSE <<ApiCall("HeapAlloc", FileNameBuffer)>> \o
         IF ~identityOk
         THEN <<ApiCall("HeapAlloc", NullPointer),
                ApiCall("HeapFree", FileNameBuffer)>>
         ELSE <<ApiCall("HeapAlloc", FileIdentityBuffer)>>

\* Mutation: only the file name is freed.
PlaceholderCleanupCallsNameOnly == <<ApiCall("HeapFree", FileNameBuffer)>>
\* l.172-177: both buffers of the descriptor are freed (both pointers are
\* non-null once CreatePlaceholderInfo succeeded).
PlaceholderCleanupCalls ==
    <<ApiCall("HeapFree", FileNameBuffer),
      ApiCall("HeapFree", FileIdentityBuffer)>>

\* CreatePlaceholder (l.157-180): build the descriptor; on failure return
\* E_OUTOFMEMORY; else CfCreatePlaceholders, free the buffers, return the
\* host's result.
CreatePlaceholder ==
    \E path \in Paths, nameOk, identityOk, hostOk \in BOOLEAN :
        FileOperation(
            CreatePlaceholderInfoCalls(nameOk, identityOk) \o
            IF ~(nameOk /\ identityOk) THEN <<>>
            ELSE <<ApiCall("CfCreatePlaceholders", path)>> \o
                 PlaceholderCleanupCalls,
            [op |-> "CreatePlaceholder", key |-> m_connectionKey,
             ok |-> nameOk /\ identityOk /\ hostOk, name |-> nameOk,
             identity |-> identityOk, host |-> hostOk])

HostStep ==
    \E t \in HostThreads :
        \/ OnFetchData(t)
        \/ OnFetchDataPush(t)
        \/ OnFetchDataNotify(t)

AppStep ==
    \/ Initialize
    \/ ShutdownRequestStop
    \/ ShutdownNotify
    \/ ShutdownJoin
    \/ RegisterSyncRoot
    \/ UnregisterSyncRoot
    \/ \E cb \in Sources \cup {None} : SetFetchDataCallback(cb)

Next ==
    \/ WorkerStep
    \/ SpuriousWake
    \/ HostStep
    \/ AppStep

Spec == Init /\ [][Next]_vars

\* A thread that is inside an operation keeps being scheduled: the worker
\* loop, a callback thread past the fetch-source test, and Shutdown past its
\* request to stop.  Nothing obliges the host or the application to start
\* an operation.
Fairness ==
    /\ WF_vars(WorkerStep)
    /\ \A t \in HostThreads :
         WF_vars(OnFetchDataPush(t)) /\ WF_vars(OnFetchDataNotify(t))
    /\ WF_vars(ShutdownNotify)
    /\ WF_vars(ShutdownJoin)

FairSpec == Spec /\ Fairness

\* The dispatcher of a provider that is registered and initialized once, with
\* every callback the host can deliver.
DispatchNext ==
    \/ WorkerStep
    \/ HostStep
    \/ InlineStep
    \/ Initialize
    \/ RegisterSyncRoot
    \/ \E cb \in Sources \cup {None} : SetFetchDataCallback(cb)
    \/ \E cb \in Sinks \cup {None} : SetNotifyCallback(cb)

DispatchSpec == Init /\ [][DispatchNext]_vars

\* The application's operations on a provider whose host delivers no
\* callback, with the calls of each operation recorded: the worker only
\* waits and stops.
OpsNext ==
    \/ WorkerCheckStop
    \/ WorkerLock
    \/ WorkerWait
    \/ WorkerPop
    \/ Initialize
    \/ ShutdownRequestStop
    \/ ShutdownNotify
    \/ ShutdownJoin
    \/ RegisterSyncRoot
    \/ UnregisterSyncRoot
    \/ CreatePlaceholder
    \/ HydrateFile
    \/ SetInSyncState
    \/ SetPinState

OpsSpec == OpsInit /\ [][OpsNext]_vars

\* ------------- Initialize, statement by statement, on several threads
\* m_initialized, m_shouldStop and m_workerThread are plain members that
\* Initialize reads and writes under no lock (l.29, l.36, l.37, l.54).
\* Threads that exist and have not returned from the worker loop: the one
\* m_workerThread owns and those started beside it.  A thread started beside
\* it runs the same loop; only its existence is modelled.
LiveWorkers ==
    (IF wpc \in {"none", "done", "terminated"} THEN 0 ELSE 1) + extraWorkers

\* l.29-31: if (m_initialized) return S_OK;
InitializeCheck(t) ==
    /\ Running
    /\ ipc[t] = "idle"
    /\ extraWorkers < MaxExtraWorkers
    /\ ipc' = [ipc EXCEPT ![t] = IF m_initialized THEN "idle" ELSE "start"]
    /\ UNCHANGED <<progVars, queueMutex, workerVars, hostVars, apc, connects,
                   histVars, extraWorkers>>
    /\ UNCHANGED inlineVars
    /\ UNCHANGED opVars

\* l.36-37: m_shouldStop = false; and the std::thread temporary is
\* constructed, which starts a thread running the worker loop.  An empty
\* m_workerThread takes it over by move assignment.
InitializeStart(t) ==
    /\ Running
    /\ ipc[t] = "start"
    /\ m_shouldStop' = FALSE
    /\ IF wpc = "none"
       THEN /\ wpc' = "outer"
            /\ ipc' = [ipc EXCEPT ![t] = "finish"]
            /\ UNCHANGED extraWorkers
       ELSE /\ extraWorkers' = extraWorkers + 1
            /\ ipc' = [ipc EXCEPT ![t] = "assign"]
            /\ UNCHANGED wpc
    /\ UNCHANGED <<m_initialized, m_workQueue, m_connectionKey,
                   m_fetchDataCallback, m_notifyCallback, queueMutex, work,
                   data, hostVars, apc, connects, histVars>>
    /\ UNCHANGED inlineVars
    /\ UNCHANGED opVars

\* l.37: the move assignment to an m_workerThread that is joinable calls
\* std::terminate; because the threads race on m_workerThread, the
\* assignment may also go through and drop the thread it held.
InitializeAssign(t) ==
    /\ Running
    /\ ipc[t] = "assign"
    /\ \/ /\ wpc' = "terminated"
          /\ UNCHANGED ipc
       \/ /\ ipc' = [ipc EXCEPT ![t] = "finish"]
          /\ UNCHANGED wpc
    /\ UNCHANGED <<progVars, queueMutex, work, data, hostVars, apc, connects,
                   histVars, extraWorkers>>
    /\ UNCHANGED inlineVars
    /\ UNCHANGED opVars

\* l.54: m_initialized = true;
InitializeFinish(t) ==
    /\ Running
    /\ ipc[t] = "finish"
    /\ m_initialized' = TRUE
    /\ ipc' = [ipc EXCEPT ![t] = "idle"]
    /\ UNCHANGED <<m_shouldStop, m_workQueue, m_connectionKey,
                   m_fetchDataCallback, m_notifyCallback, queueMutex,
                   workerVars, hostVars, apc, connects, histVars,
                   extraWorkers>>
    /\ UNCHANGED inlineVars
    /\ UNCHANGED opVars

\* Initialize called from several threads, Shutdown from one, and the worker
\* loop of a provider that is never connected.
RaceNext ==
    \/ \E t \in InitThreads :
          \/ InitializeCheck(t)
          \/ InitializeStart(t)
          \/ InitializeAssign(t)
          \/ InitializeFinish(t)
    \/ WorkerCheckStop
    \/ WorkerLock
    \/ WorkerWait
    \/ WorkerPop
    \/ SpuriousWake
    \/ ShutdownRequestStop
    \/ ShutdownNotify
    \/ ShutdownJoin

RaceSpec == Init /\ [][RaceNext]_vars

\* ================================================================ claims
Range(q) == {q[i] : i \in 1..Len(q)}
\* Ids of the work items whose execution has started, in execution order.
ExecutedIds == [i \in 1..Len(fetchCalls) |-> fetchCalls[i].id]

\* C1: the worker executes work items in exactly the order they were appended
\* to the queue, and none more than once: the executed ids are a prefix of the
\* appended ids, without repetition.
C1_FifoAtMostOnce ==
    /\ Len(fetchCalls) <= Len(enqueued)
    /\ ExecutedIds = SubSeq(enqueued, 1, Len(fetchCalls))
    /\ \A i, j \in 1..Len(fetchCalls) : i # j => ExecutedIds[i] # ExecutedIds[j]

\* Two items pushed by different callback threads in the reverse of their
\* arrival order, both executed.
C1_Witness == enqueued = <<2, 1>> /\ Len(fetchCalls) = 2

\* C4: a work item that was queued and not yet popped when stop was requested
\* is never executed afterwards.
C4_StoppedItemsNeverExecuted ==
    \A i \in 1..Len(fetchCalls) : fetchCalls[i].id \notin stopped

\* C5: the worker does not hold the queue lock while a work item executes, a
\* callback thread about to push can then take the lock at once, and whoever
\* holds the lock can always take its next step.
C5_NoLockWhileExecuting ==
    /\ queueMutex \in {Free, Worker}
    /\ wpc \in {"exec", "xfer", "relock"} => queueMutex # Worker
    /\ \A t \in HostThreads :
         hpc[t] = "push" /\ wpc \in {"exec", "xfer"}
            => ENABLED OnFetchDataPush(t)
    /\ queueMutex = Worker => ENABLED WorkerStep

\* A callback thread is about to take the lock while a work item executes.
C5_Witness == wpc = "exec" /\ \E t \in HostThreads : hpc[t] = "push"

\* C6: a work item that raises an error does not terminate the worker.
C6_WorkerSurvivesItemError == wpc # "terminated"

\* C7: a fetch request that arrives with no fetch source configured creates
\* no work item: its id is never held by a callback thread about to push,
\* never appended to the queue, never handed to a fetch source and never the
\* subject of a transfer.
C7_NoSourceNoWork ==
    \A i \in 1..Len(requests) :
        requests[i].source = None =>
            /\ \A t \in HostThreads : hitem[t].id # i
            /\ i \notin Range(enqueued)
            /\ i \notin QueuedIds(m_workQueue)
            /\ \A k \in 1..Len(fetchCalls) : fetchCalls[k].id # i
            /\ \A k \in 1..Len(transfers) : transfers[k].id # i

\* A request ignored for want of a fetch source, and a later request served.
C7_Witness ==
    /\ Len(requests) = 2
    /\ requests[1].source = None
    /\ \E k \in 1..Len(transfers) : transfers[k].id = 2

\* C8: the transfer a work item issues carries the correlation key of the
\* fetch request that created it, the bytes the fetch source returned for the
\* request's path, and a success status.
C8_TransferMatchesRequest ==
    \A k \in 1..Len(transfers) :
        LET x == transfers[k]
            r == requests[x.id]
        IN /\ x.key = r.key
           /\ x.buffer = RemoteBytes(r.path)
           /\ x.status = STATUS_SUCCESS

\* C2: while the provider is initialized, every queued work item is eventually
\* executed unless stop is requested.
C2_NoLoss ==
    \A i \in 1..MaxCallbacks :
        [](m_initialized /\ i \in QueuedIds(m_workQueue)
             => <>(i \in Range(ExecutedIds) \/ m_shouldStop))

\* What remains of C2 in the code: a queued item is executed, or stop is
\* requested, or an exception has ended the process.
NoLossWhileAlive ==
    \A i \in 1..MaxCallbacks :
        [](m_initialized /\ i \in QueuedIds(m_workQueue)
             => <>(i \in Range(ExecutedIds) \/ m_shouldStop \/ ~Running))

\* C3: when Shutdown has requested stop while a work item is executing, the
\* item completes, the worker exits and Shutdown returns.
C3_ShutdownCompletes ==
    [](apc = "sd_notify" /\ wpc \in {"exec", "xfer"}
         => <>(apc = "idle" /\ wpc = "none" /\ ~m_initialized))

\* What remains of C3 in the code: Shutdown returns unless an exception has
\* ended the process; the worker is never left blocked in its wait.
ShutdownCompletesWhileAlive ==
    [](apc \in {"sd_notify", "sd_join"}
         => <>((apc = "idle" /\ wpc = "none" /\ ~m_initialized) \/ ~Running))

\* An inline callback has just been delivered and handled.
InlineHandled == inlineCount' # inlineCount
\* The queue, its lock, the worker and the pushing threads are as they were.
QueueUntouched ==
    UNCHANGED <<m_workQueue, queueMutex, workerVars, hostVars, enqueued>>

\* C9: a validate-data callback is answered before the handler returns, with
\* exactly one acknowledgement of success status that echoes the request's
\* offset and length; the handler leaves the work queue as it is and is never
\* held up by the queue lock or the worker.
C9_ValidateAnswersInline ==
    /\ [][InlineHandled /\ lastEvent'.kind = "validate" =>
            /\ Len(ackOut') = 1
            /\ ackOut'[1].status = STATUS_SUCCESS
            /\ ackOut'[1].offset = lastEvent'.offset
            /\ ackOut'[1].length = lastEvent'.length
            /\ QueueUntouched]_vars
    /\ [](Running /\ Connected /\ Delivered < MaxCallbacks =>
            \A r \in ValidateRequests : ENABLED OnValidateData(r))

\* A validate request answered while the queue holds an item and the worker
\* holds the queue lock.
C9_Witness ==
    /\ lastEvent.kind = "validate"
    /\ lastEvent.offset = 4
    /\ Len(ackOut) = 1
    /\ m_workQueue # <<>>
    /\ queueMutex = Worker

\* The notify-sink event name of each callback kind; None for the kinds that
\* are not forwarded.
ExpectedEventName(kind) ==
    CASE kind = "open_completion" -> "file_opened"
      [] kind = "close_completion" -> "file_closed"
      [] kind = "delete" -> "file_deleted"
      [] kind = "rename" -> "file_renamed"
      [] OTHER -> None

\* C10: open-completion, close-completion, delete and rename are forwarded to
\* the notify sink exactly once, with the event's path and the names
\* file_opened, file_closed, file_deleted, file_renamed, if and only if a sink
\* is configured; no other inline callback invokes the sink; none of them
\* changes the work queue.
C10_NotifyMapping ==
    [][InlineHandled =>
          /\ sinkOut' =
                IF ExpectedEventName(lastEvent'.kind) # None
                   /\ m_notifyCallback # None
                THEN <<[sink |-> m_notifyCallback,
                        path |-> lastEvent'.path,
                        event |-> ExpectedEventName(lastEvent'.kind)]>>
                ELSE <<>>
          /\ QueueUntouched]_vars

\* A rename forwarded to the sink while the queue holds an item.
C10_Witness ==
    /\ lastEvent.kind = "rename"
    /\ sinkOut = <<[sink |-> "sink", path |-> "b", event |-> "file_renamed"]>>
    /\ m_workQueue # <<>>

\* ---------------------------------------------- operations and their calls
\* Number of calls of the latest operation to the API function `name`.
CallCount(name) ==
    Cardinality({i \in 1..Len(callOut) : callOut[i].call = name})
\* Number of those calls that passed `arg`.
CallCountWith(name, arg) ==
    Cardinality({i \in 1..Len(callOut) :
                    callOut[i].call = name /\ callOut[i].arg = arg})

\* C11: the disconnect step is idempotent: the host disconnect is never called
\* with the invalid-key sentinel; when Shutdown or UnregisterSyncRoot finds the
\* stored key invalid it makes no disconnect call; and once either has run its
\* disconnect step the stored key is the invalid sentinel.
C11_DisconnectIdempotent ==
    /\ CallCountWith("CfDisconnectSyncRoot", CF_CONNECTION_KEY_INVALID) = 0
    /\ lastOp.op \in {"Shutdown", "UnregisterSyncRoot"} =>
          /\ lastOp.key = CF_CONNECTION_KEY_INVALID =>
                CallCount("CfDisconnectSyncRoot") = 0
          /\ lastOp.key # CF_CONNECTION_KEY_INVALID =>
                CallCountWith("CfDisconnectSyncRoot", lastOp.key) = 1
          /\ m_connectionKey = CF_CONNECTION_KEY_INVALID

\* Shutdown reaches its disconnect step after the only connection was already
\* disconnected by UnregisterSyncRoot: the second disconnect does nothing.
C11_Witness ==
    /\ lastOp.op = "Shutdown"
    /\ lastOp.key = CF_CONNECTION_KEY_INVALID
    /\ connects > 0
    /\ hostConns = {}
    /\ CallCount("CfDisconnectSyncRoot") = 0

\* C12: every key a successful host connect returned is disconnected before
\* the provider loses it: a key the host still holds connected is the stored
\* key (RegisterSyncRoot never overwrites a connected key), and a completed
\* Shutdown leaves no key connected.
C12_EveryHandleReleased ==
    /\ hostConns \subseteq {m_connectionKey}
    /\ lastOp.op = "Shutdown" => hostConns = {}

\* C13: when CfConnectSyncRoot fails after CfRegisterSyncRoot succeeded,
\* RegisterSyncRoot ends with one CfUnregisterSyncRoot call, returns failure
\* and leaves the stored key invalid.
C13_ConnectFailureRollsBack ==
    (/\ lastOp.op = "RegisterSyncRoot"
     /\ DirectoryReady(lastOp.dir)
     /\ lastOp.reg
     /\ ~lastOp.conn)
    => /\ CallCount("CfUnregisterSyncRoot") = 1
       /\ callOut[Len(callOut)].call = "CfUnregisterSyncRoot"
       /\ ~lastOp.ok
       /\ m_connectionKey = CF_CONNECTION_KEY_INVALID

\* C14: RegisterSyncRoot goes on to the host registration when the directory
\* already exists, and then succeeds exactly when registration and connect do;
\* when the directory cannot be created for another reason it fails without
\* calling CfRegisterSyncRoot or CfConnectSyncRoot; when the host rejects the
\* registration it fails without calling CfConnectSyncRoot.
C14_RegisterFailurePaths ==
    lastOp.op = "RegisterSyncRoot" =>
       /\ lastOp.dir = "exists" =>
             /\ CallCount("CfRegisterSyncRoot") = 1
             /\ lastOp.ok = (lastOp.reg /\ lastOp.conn)
       /\ lastOp.dir = "denied" =>
             /\ ~lastOp.ok
             /\ CallCount("CfRegisterSyncRoot") = 0
             /\ CallCount("CfConnectSyncRoot") = 0
       /\ (DirectoryReady(lastOp.dir) /\ ~lastOp.reg) =>
             /\ ~lastOp.ok
             /\ CallCount("CfConnectSyncRoot") = 0

\* The second registration of the same path finds the directory existing and
\* succeeds.
C14_Witness ==
    /\ lastOp.op = "RegisterSyncRoot"
    /\ lastOp.dir = "exists"
    /\ lastOp.ok
    /\ connects = 2

\* The operations that open a file, give the host one command and close it.
HandleOperations == {"HydrateFile", "SetInSyncState", "SetPinState"}
\* The host command each of them issues.
HostCommandOf(op) ==
    CASE op = "HydrateFile" -> "CfExecute"
      [] op = "SetInSyncState" -> "CfSetInSyncState"
      [] op = "SetPinState" -> "CfSetPinState"
\* Position of the first call to `name` among the latest operation's calls
\* (0 if there is none).
FirstCall(name) ==
    IF CallCount(name) = 0 THEN 0
    ELSE CHOOSE i \in 1..Len(callOut) :
            /\ callOut[i].call = name
            /\ \A j \in 1..(i - 1) : callOut[j].call # name

\* C15: when the file opens and the host transfer succeeds, HydrateFile issues
\* exactly one transfer, of the whole buffer at offset 0 with success status,
\* afterwards invokes the progress callback it was given exactly once with 1.0,
\* closes the handle once and returns success; when the file cannot be opened
\* it returns failure with no transfer and no progress call.
C15_HydrateSuccessAndOpenFailure ==
    lastOp.op = "HydrateFile" =>
       /\ (lastOp.open /\ lastOp.host) =>
             /\ CallCount("CfExecute") = 1
             /\ LET t == callOut[FirstCall("CfExecute")]
                IN /\ t.buffer = lastOp.buffer
                   /\ t.length = Len(lastOp.buffer)
                   /\ t.offset = 0
                   /\ t.status = STATUS_SUCCESS
             /\ lastOp.progress # None =>
                   /\ CallCountWith(lastOp.progress, ProgressComplete) = 1
                   /\ CallCount(lastOp.progress) = 1
                   /\ FirstCall("CfExecute") < FirstCall(lastOp.progress)
             /\ CallCount("CloseHandle") = 1
             /\ lastOp.ok
       /\ ~lastOp.open =>
             /\ ~lastOp.ok
             /\ CallCount("CfExecute") = 0
             /\ CallCount("progress") = 0

\* A two-byte buffer hydrated with a progress callback: file opened, transfer
\* accepted.
C15_Witness ==
    /\ lastOp.op = "HydrateFile"
    /\ lastOp.open /\ lastOp.host /\ lastOp.ok
    /\ lastOp.buffer = <<1, 2>>
    /\ lastOp.progress = "progress"
    /\ Len(callOut) = 4

\* Number of successful allocations of / frees of a descriptor buffer.
Allocated(buf) == CallCountWith("HeapAlloc", buf)
Freed(buf) == CallCountWith("HeapFree", buf)

\* C16: on every exit path of CreatePlaceholder (success, host rejection,
\* failure of either allocation) each descriptor buffer is freed as often as
\* it was allocated, at most once, and never before it was allocated; a host
\* rejection is returned as failure.
C16_PlaceholderBuffersReleased ==
    lastOp.op = "CreatePlaceholder" =>
       /\ \A buf \in {FileNameBuffer, FileIdentityBuffer} :
             /\ Freed(buf) = Allocated(buf)
             /\ Freed(buf) <= 1
             /\ \A i \in 1..Len(callOut) :
                   callOut[i] = ApiCall("HeapFree", buf) =>
                      \E j \in 1..(i - 1) : callOut[j] = ApiCall("HeapAlloc", buf)
       /\ CallCountWith("HeapFree", NullPointer) = 0
       /\ (lastOp.name /\ lastOp.identity /\ ~lastOp.host) => ~lastOp.ok

\* The host rejects a placeholder whose two buffers were allocated.
C16_Witness ==
    /\ lastOp.op = "CreatePlaceholder"
    /\ lastOp.name /\ lastOp.identity /\ ~lastOp.host
    /\ Allocated(FileNameBuffer) = 1
    /\ Allocated(FileIdentityBuffer) = 1
    /\ Freed(FileIdentityBuffer) = 1

\* C17: HydrateFile, SetInSyncState and SetPinState close the handle exactly
\* once, after the host command, whenever the open succeeded, and return
\* failure when the host command failed; when the open fails they issue no
\* host command, close no handle and return failure.
C17_HandleAlwaysClosed ==
    lastOp.op \in HandleOperations =>
       /\ lastOp.open =>
             /\ CallCount(HostCommandOf(lastOp.op)) = 1
             /\ CallCountWith("CloseHandle", FileHandle) = 1
             /\ CallCount("CloseHandle") = 1
             /\ FirstCall(HostCommandOf(lastOp.op)) < FirstCall("CloseHandle")
             /\ lastOp.ok = lastOp.host
       /\ ~lastOp.open =>
             /\ CallCount(HostCommandOf(lastOp.op)) = 0
             /\ CallCount("CloseHandle") = 0
             /\ ~lastOp.ok

\* SetPinState on a file that opened, with the host refusing the command.
C17_Witness ==
    /\ lastOp.op = "SetPinState"
    /\ lastOp.open /\ ~lastOp.host /\ ~lastOp.ok
    /\ CallCount("CloseHandle") = 1

\* C18: when the host transfer fails, HydrateFile returns failure and does not
\* call progressCallback.
C18_NoCompletionAfterFailedTransfer ==
    (lastOp.op = "HydrateFile" /\ lastOp.open /\ ~lastOp.host)
    => /\ ~lastOp.ok
       /\ CallCount("progress") = 0

\* The worker is about to evaluate while (!m_shouldStop) (l.38) and holds no
\* lock.
WorkerReadsStopUnlocked == wpc = "outer" /\ queueMutex # Worker
\* Shutdown, called now, takes the free queue lock and writes m_shouldStop
\* (l.68-71).
ShutdownWritesStop ==
    Running /\ m_initialized /\ apc = "idle" /\ queueMutex = Free

\* C19: once the worker runs, the stop flag is read and written only by a
\* thread holding the queue lock: the worker is never about to read it with
\* no lock held while Shutdown can write it.
C19_StopFlagUnderLock == ~(WorkerReadsStopUnlocked /\ ShutdownWritesStop)

\* C20: at every moment at most one worker thread exists, also when two
\* threads call Initialize at once.
C20_AtMostOneWorker == LiveWorkers <= 1

\* C21: a work item uses what was in effect when OnFetchData created it: the
\* fetch source a running item is about to invoke, and every source invoked,
\* is the one the request found configured, and the connection key an item is
\* about to put in its transfer is still a valid key, as the key stored when
\* the request arrived was, whatever SetFetchDataCallback or
\* UnregisterSyncRoot did in between.
C21_ItemUsesEnqueueTimeContext ==
    /\ wpc = "exec" => m_fetchDataCallback = requests[work.id].source
    /\ \A k \in 1..Len(fetchCalls) :
          fetchCalls[k].source = requests[fetchCalls[k].id].source
    /\ wpc = "xfer" => m_connectionKey # CF_CONNECTION_KEY_INVALID

\* C22: UnregisterSyncRoot called while connected calls the host disconnect
\* with the stored key and then the host unregister; called while not
\* connected it calls only the host unregister; either way the stored key is
\* the invalid sentinel and the host no longer holds that key connected,
\* whatever the host unregister returned.
C22_UnregisterDisconnectsFirst ==
    lastOp.op = "UnregisterSyncRoot" =>
       /\ callOut =
             IF lastOp.key # CF_CONNECTION_KEY_INVALID
             THEN <<ApiCall("CfDisconnectSyncRoot", lastOp.key),
                    ApiCall("CfUnregisterSyncRoot", 0)>>
             ELSE <<ApiCall("CfUnregisterSyncRoot", 0)>>
       /\ m_connectionKey = CF_CONNECTION_KEY_INVALID
       /\ lastOp.key \notin hostConns

\* UnregisterSyncRoot on a connected provider, with the host refusing to
\* unregister.
C22_Witness ==
    /\ lastOp.op = "UnregisterSyncRoot"
    /\ lastOp.key # CF_CONNECTION_KEY_INVALID
    /\ ~lastOp.ok
    /\ Len(callOut) = 2
    /\ m_connectionKey = CF_CONNECTION_KEY_INVALID

\* C23: no transfer command of a work item carries the invalid connection
\* key.
C23_NoTransferOnInvalidHandle ==
    \A k \in 1..Len(transfers) :
        transfers[k].conn # CF_CONNECTION_KEY_INVALID

====
